---- MODULE Spec2Model ----
(***************************************************************************)
(* Model of import_tulip_table (src/import_tulip.py): one call that        *)
(* validates its arguments, resolves the table against the listing         *)
(* endpoint, fetches the records page by page, builds the table and        *)
(* normalises its column names.                                            *)
(*                                                                         *)
(* Table identifiers and labels are plain strings (only compared).  Column *)
(* names are sequences of one-character strings, so that str.title(),      *)
(* str.upper() and str.replace() are computed character by character.      *)
(* A record is the index of the row at the server (offset + position).     *)
(***************************************************************************)
EXTENDS Integers, Sequences, FiniteSets, TLC

VARIABLES
    pc,             \* position in the call: start, listing, fetch, build, done, norm
    args,           \* the arguments of the call, as passed
    table_id,       \* local table_id (rebound at line 69)
    table_name,     \* local table_name (rebound at line 70)
    listing,        \* the listing response: [status, tables]
    table_columns,  \* table_info["columns"]
    max_limit,      \* line 78
    default_limit,  \* line 85
    iteration,      \* line 82
    offset,         \* line 86
    all_records,    \* line 87
    requests,       \* every HTTP request issued, in order
    pages,          \* every records response received: [status, n]
    record_keys,    \* the keys of the records the server serves
    constructed,    \* df.columns after the construction stage (line 119)
    tz_converted,   \* reserved timestamp columns converted (lines 122-130)
    df_columns,     \* df.columns of the returned table
    df_rows,        \* the rows of the returned table
    outcome,        \* none, ValueError, credentials, notfound, table
    not_found_ref,  \* the reference the not-found message carries
    norm_once,      \* column names after the first normalisation pass
    passes          \* normalisation passes applied

vars == << pc, args, table_id, table_name, listing, table_columns, max_limit,
           default_limit, iteration, offset, all_records, requests, pages,
           record_keys, constructed, tz_converted, df_columns, df_rows,
           outcome, not_found_ref, norm_once, passes >>

---------------------------------------------------------------------------
(* Bounds of the model *)

\* pages the server is asked for before the model stops following the loop
MaxPages == 3
\* length of the generated column names of the normalisation specification
MaxLen == 2

(* Program constants *)

\* the page size of line 85 and the divisor of line 81
PAGE == 1000
\* the "no limit" iteration cap of line 81
SENTINEL == 99999999
\* the only status the code treats as success (lines 47, 95)
OK == 200

None == "<None>"

---------------------------------------------------------------------------
(* Strings as sequences of characters *)

LowerChars == << "a","b","c","d","e","f","g","h","i","j","k","l","m",
                 "n","o","p","q","r","s","t","u","v","w","x","y","z" >>
UpperChars == << "A","B","C","D","E","F","G","H","I","J","K","L","M",
                 "N","O","P","Q","R","S","T","U","V","W","X","Y","Z" >>

IsLower(c) == \E i \in 1..26 : LowerChars[i] = c
IsUpper(c) == \E i \in 1..26 : UpperChars[i] = c
IsCased(c) == IsLower(c) \/ IsUpper(c)

ToUpper(c) == IF IsLower(c) THEN UpperChars[CHOOSE i \in 1..26 : LowerChars[i] = c] ELSE c
ToLower(c) == IF IsUpper(c) THEN LowerChars[CHOOSE i \in 1..26 : UpperChars[i] = c] ELSE c

\* str.upper()
Upper(s) == [i \in 1..Len(s) |-> ToUpper(s[i])]

\* a title() that starts a new word only after a space
TitleWords(s) ==
    [i \in 1..Len(s) |-> IF i > 1 /\ s[i-1] # " " THEN ToLower(s[i]) ELSE ToUpper(s[i])]

\* str.title(): a cased character is upper-cased when the character before it
\* is not cased (or there is none), lower-cased otherwise
Title(s) ==
    [i \in 1..Len(s) |-> IF i > 1 /\ IsCased(s[i-1]) THEN ToLower(s[i]) ELSE ToUpper(s[i])]

\* str.replace(" ", "_")
ReplaceSpaces(s) == [i \in 1..Len(s) |-> IF s[i] = " " THEN "_" ELSE s[i]]

Range(s) == { s[i] : i \in 1..Len(s) }

N_ID            == << "I","D" >>
N_id            == << "i","d" >>
N_createdAt     == << "_","c","r","e","a","t","e","d","A","t" >>
N_updatedAt     == << "_","u","p","d","a","t","e","d","A","t" >>
N_Sequencenumber == << "_","S","e","q","u","e","n","c","e","n","u","m","b","e","r" >>
N_Created_At    == << "C","r","e","a","t","e","d","_","A","t" >>
N_Updated_At    == << "U","p","d","a","t","e","d","_","A","t" >>
N_Foo_Bar       == << "F","o","o","_","B","a","r" >>
N_qty           == << "q","t","y" >>
N_unit_price    == << "u","n","i","t"," ","p","r","i","c","e" >>
N_made          == << "m","a","d","e" >>
N_Id            == << "I","d" >>

---------------------------------------------------------------------------
(* The inputs of a call and the answers of the server *)

COLS_A == << [name |-> N_id,  label |-> N_ID],
             [name |-> N_qty, label |-> N_unit_price] >>
COLS_B == << [name |-> N_id,        label |-> N_ID],
             [name |-> N_createdAt, label |-> N_made],
             [name |-> N_qty,       label |-> N_qty] >>

LISTING_0 == << >>
LISTING_1 == << [id |-> "T1",     label |-> "Orders", columns |-> COLS_A],
                [id |-> "Orders", label |-> "Parts",  columns |-> COLS_B],
                [id |-> "T3",     label |-> "Orders", columns |-> COLS_B] >>
Listings == { LISTING_0, LISTING_1 }

TableIds   == { None, "T1", "Orders", "Parts" }
TableNames == { None, "Orders", "T1" }

\* the query string, as the key/value pairs urllib.parse finds in it
Queries == { << >>,
             << [key |-> "limit", value |-> 0] >>,
             << [key |-> "limit", value |-> -5] >>,
             << [key |-> "limit", value |-> 1] >>,
             << [key |-> "limit", value |-> 50] >>,
             << [key |-> "offset", value |-> 7], [key |-> "limit", value |-> 999] >>,
             << [key |-> "limit", value |-> 1000] >>,
             << [key |-> "limit", value |-> 1500], [key |-> "limit", value |-> 50] >>,
             << [key |-> "limit", value |-> 2000] >> }

\* the keys of the record objects the records endpoint serves
RecordKeySets == { << >>,
                   << N_id, N_qty >>,
                   << N_id, N_qty, N_createdAt, N_updatedAt >> }

Statuses == { OK, 500 }

\* the page lengths the server may answer a request of `limit` records with
ResponseSizes(limit) == { n \in { 0, 1, limit - 1, limit, limit + 1 } : n >= 0 }

\* the records the server serves for a page of n records at `off`
Page(off, n) == [i \in 1..n |-> off + i]

---------------------------------------------------------------------------
(* The steps of import_tulip_table *)

\* line 27 without its both-set case
ArgsInvalidBothUnset(tid, tname) == tname = None /\ tid = None

\* line 27
ArgsInvalid(tid, tname) ==
    \/ (tname = None /\ tid = None)
    \/ (tname # None /\ tid # None)

\* line 62 matching the id or the label, whichever was asked for
FindTableAnyField(tables, identifier, match) ==
    IF \E i \in 1..Len(tables) : tables[i].id = match \/ tables[i].label = match
    THEN CHOOSE i \in 1..Len(tables) :
            /\ (tables[i].id = match \/ tables[i].label = match)
            /\ \A j \in 1..(i-1) : ~(tables[j].id = match \/ tables[j].label = match)
    ELSE 0

\* line 62: the position of the first listed table whose `identifier` field
\* equals `match`, 0 when there is none
FindTable(tables, identifier, match) ==
    IF \E i \in 1..Len(tables) : tables[i][identifier] = match
    THEN CHOOSE i \in 1..Len(tables) :
            /\ tables[i][identifier] = match
            /\ \A j \in 1..(i-1) : tables[j][identifier] # match
    ELSE 0

\* lines 77-78: the first value of the query's limit parameter, 0 without one
MaxLimit(query) ==
    IF \E i \in 1..Len(query) : query[i].key = "limit"
    THEN query[CHOOSE i \in 1..Len(query) :
                 /\ query[i].key = "limit"
                 /\ \A j \in 1..(i-1) : query[j].key # "limit"].value
    ELSE 0

\* line 81 without the sentinel of the no-limit case
CapReachedNoSentinel(it, ml) == it * PAGE >= ml

\* line 102 with > for >=
CapReachedStrict(it, ml) ==
    IF ml # 0 THEN it * PAGE > ml ELSE it >= SENTINEL

\* lines 81 and 102: iteration >= max_iterations, where max_iterations is
\* max_limit / 1000 (a float) or the sentinel; it >= ml / 1000 is compared
\* as it * 1000 >= ml, which is exact
CapReached(it, ml) ==
    IF ml # 0 THEN it * PAGE >= ml ELSE it >= SENTINEL

\* line 85 without its upper bound
DefaultLimitAnyPositive(ml) == IF ml > 0 THEN ml ELSE PAGE

\* line 85
DefaultLimit(ml) == IF ml > 0 /\ ml < PAGE THEN ml ELSE PAGE

\* line 102
PageEndsLoop(n, it, ml, dl) == n < dl \/ CapReached(it, ml)

\* lines 106-108 dropping what was fetched
RecordsKeptRollback(status, records, page) ==
    IF status = OK THEN records \o page ELSE << >>

\* lines 95-99 and 106-108: all_records after one response
RecordsKept(status, records, page) ==
    IF status = OK THEN records \o page ELSE records

\* df[c] = None: a new column goes last, an existing one keeps its place
AddColumn(cols, c) == IF c \in Range(cols) THEN cols ELSE Append(cols, c)

\* lines 115-119 without line 119
EmptyColumnsNoSequence(tcols) ==
    AddColumn(AddColumn([i \in 1..Len(tcols) |-> tcols[i].name], N_createdAt), N_updatedAt)

\* lines 115-119
EmptyColumns(tcols) ==
    AddColumn(AddColumn(AddColumn([i \in 1..Len(tcols) |-> tcols[i].name],
                                  N_createdAt), N_updatedAt), N_Sequencenumber)

\* line 114: df.empty, no row or no column
DfEmpty(records, keys) == records = << >> \/ keys = << >>

\* line 134: a later entry of the same name replaces an earlier one
ColumnMapping(tcols) ==
    [nm \in { tcols[i].name : i \in 1..Len(tcols) } |->
        tcols[CHOOSE i \in 1..Len(tcols) :
                /\ tcols[i].name = nm
                /\ \A j \in (i+1)..Len(tcols) : tcols[j].name # nm].label]

\* DataFrame.rename(columns=mapping, errors='ignore')
Rename(cols, mapping) ==
    [i \in 1..Len(cols) |-> IF cols[i] \in DOMAIN mapping THEN mapping[cols[i]] ELSE cols[i]]

ReservedMapping == (N_createdAt :> N_Created_At) @@ (N_updatedAt :> N_Updated_At)

\* lines 135-136
RenameColumns(cols, tcols) == Rename(Rename(cols, ColumnMapping(tcols)), ReservedMapping)

\* lines 139-140, for one column name
StandardizeName(col) == ReplaceSpaces(IF col = N_ID THEN Upper(col) ELSE Title(col))

\* lines 133-140
Normalize(cols, tcols, rename) ==
    LET renamed == IF rename THEN RenameColumns(cols, tcols) ELSE cols
    IN  [i \in 1..Len(renamed) |-> StandardizeName(renamed[i])]

---------------------------------------------------------------------------
(* The call *)

NoListing == [status |-> 0, tables |-> << >>]

Init ==
    /\ pc = "start"
    /\ args \in [table_id : TableIds, table_name : TableNames,
                 rename_columns : BOOLEAN, query : Queries]
    /\ table_id = args.table_id
    /\ table_name = args.table_name
    /\ listing = NoListing
    /\ table_columns = << >>
    /\ max_limit = 0
    /\ default_limit = 0
    /\ iteration = 0
    /\ offset = 0
    /\ all_records = << >>
    /\ requests = << >>
    /\ pages = << >>
    /\ record_keys \in RecordKeySets
    /\ constructed = << >>
    /\ tz_converted = {}
    /\ df_columns = << >>
    /\ df_rows = << >>
    /\ outcome = "none"
    /\ not_found_ref = None
    /\ norm_once = << >>
    /\ passes = 0

\* lines 26-44: the argument check, then the listing request
Call ==
    /\ pc = "start"
    /\ IF ArgsInvalid(table_id, table_name)
       THEN /\ outcome' = "ValueError"
            /\ pc' = "done"
            /\ UNCHANGED requests
       ELSE /\ requests' = Append(requests, [kind |-> "tables", table |-> None,
                                              limit |-> 0, offset |-> 0])
            /\ pc' = "listing"
            /\ UNCHANGED outcome
    /\ UNCHANGED << args, table_id, table_name, listing, table_columns, max_limit,
                    default_limit, iteration, offset, all_records, pages,
                    record_keys, constructed, tz_converted, df_columns, df_rows,
                    not_found_ref, norm_once, passes >>

\* lines 44-87: the listing response, the lookup and the pagination set-up
ListingResponse ==
    /\ pc = "listing"
    /\ \E status \in Statuses, tables \in Listings :
        LET table_identifier == IF table_id # None THEN "id" ELSE "label"
            table_match      == IF table_id # None THEN table_id ELSE table_name
            found            == FindTable(tables, table_identifier, table_match)
        IN
        IF status # OK
        THEN /\ listing' = [status |-> status, tables |-> << >>]
             /\ outcome' = "credentials"
             /\ pc' = "done"
             /\ UNCHANGED << table_id, table_name, table_columns, max_limit,
                             default_limit, not_found_ref >>
        ELSE /\ listing' = [status |-> status, tables |-> tables]
             /\ IF found = 0
                THEN /\ outcome' = "notfound"
                     /\ not_found_ref' = table_match
                     /\ pc' = "done"
                     /\ UNCHANGED << table_id, table_name, table_columns,
                                     max_limit, default_limit >>
                ELSE /\ table_id' = tables[found].id
                     /\ table_name' = tables[found].label
                     /\ table_columns' = tables[found].columns
                     /\ max_limit' = MaxLimit(args.query)
                     /\ default_limit' = DefaultLimit(MaxLimit(args.query))
                     /\ pc' = "fetch"
                     /\ UNCHANGED << outcome, not_found_ref >>
    /\ UNCHANGED << args, iteration, offset, all_records, requests, pages,
                    record_keys, constructed, tz_converted, df_columns, df_rows,
                    norm_once, passes >>

\* lines 90-108: one turn of the loop, the request and its response
FetchPage ==
    /\ pc = "fetch"
    /\ Len(pages) < MaxPages
    /\ \E status \in Statuses, n \in ResponseSizes(default_limit) :
        /\ status # OK => n = 0
        /\ requests' = Append(requests, [kind |-> "records", table |-> table_id,
                                          limit |-> default_limit, offset |-> offset])
        /\ pages' = Append(pages, [status |-> status, n |-> n])
        /\ all_records' = RecordsKept(status, all_records, Page(offset, n))
        /\ IF status = OK
           THEN /\ iteration' = iteration + 1
                /\ IF PageEndsLoop(n, iteration + 1, max_limit, default_limit)
                   THEN pc' = "build" /\ UNCHANGED offset
                   ELSE pc' = "fetch" /\ offset' = offset + default_limit
           ELSE /\ pc' = "build"
                /\ UNCHANGED << iteration, offset >>
    /\ UNCHANGED << args, table_id, table_name, listing, table_columns, max_limit,
                    default_limit, record_keys, constructed, tz_converted,
                    df_columns, df_rows, outcome, not_found_ref, norm_once, passes >>

\* lines 110-142: the table, its timestamps and its column names
BuildTable ==
    /\ pc = "build"
    /\ \E parse_ok \in BOOLEAN :
        LET empty == DfEmpty(all_records, record_keys)
            cols  == IF empty THEN EmptyColumns(table_columns) ELSE record_keys
        IN
        /\ constructed' = cols
        /\ df_rows' = IF empty THEN << >> ELSE all_records
        /\ tz_converted' = { c \in { N_createdAt, N_updatedAt } :
                                c \in Range(cols) /\ (empty \/ parse_ok) }
        /\ df_columns' = Normalize(cols, table_columns, args.rename_columns)
    /\ outcome' = "table"
    /\ pc' = "done"
    /\ UNCHANGED << args, table_id, table_name, listing, table_columns, max_limit,
                    default_limit, iteration, offset, all_records, requests, pages,
                    record_keys, not_found_ref, norm_once, passes >>

Next == Call \/ ListingResponse \/ FetchPage \/ BuildTable

Spec == Init /\ [][Next]_vars

---------------------------------------------------------------------------
(* Column normalisation applied to its own output *)

NormAlphabet == { "i", "d", "I", "D", " ", "_" }

\* every name of at most MaxLen characters of the alphabet
GeneratedNames == UNION { [1..k -> NormAlphabet] : k \in 0..MaxLen }

NormNames == GeneratedNames \cup { N_Foo_Bar, N_createdAt, N_unit_price }

NormColumns == { << n >> : n \in NormNames }
               \cup { << n, m >> : n \in NormNames, m \in { N_ID, N_Foo_Bar } }

COLS_C == << [name |-> N_Id, label |-> N_made] >>
COLS_D == << [name |-> << "I" >>, label |-> << "d", " ", "i" >>],
             [name |-> N_Created_At, label |-> N_qty] >>

NormMetadata == { << >>, COLS_A, COLS_B, COLS_C, COLS_D }

InitNorm ==
    /\ pc = "norm"
    /\ args \in [table_id : { None }, table_name : { None },
                 rename_columns : BOOLEAN, query : { << >> }]
    /\ table_id = None
    /\ table_name = None
    /\ listing = NoListing
    /\ table_columns \in NormMetadata
    /\ max_limit = 0
    /\ default_limit = 0
    /\ iteration = 0
    /\ offset = 0
    /\ all_records = << >>
    /\ requests = << >>
    /\ pages = << >>
    /\ record_keys = << >>
    /\ constructed \in NormColumns
    /\ tz_converted = {}
    /\ df_columns = constructed
    /\ df_rows = << >>
    /\ outcome = "none"
    /\ not_found_ref = None
    /\ norm_once = << >>
    /\ passes = 0

\* lines 133-140 applied to the column names at hand
NormalizePass ==
    /\ pc = "norm"
    /\ passes < 2
    /\ df_columns' = Normalize(df_columns, table_columns, args.rename_columns)
    /\ norm_once' = IF passes = 0
                    THEN Normalize(df_columns, table_columns, args.rename_columns)
                    ELSE norm_once
    /\ passes' = passes + 1
    /\ UNCHANGED << pc, args, table_id, table_name, listing, table_columns,
                    max_limit, default_limit, iteration, offset, all_records,
                    requests, pages, record_keys, constructed, tz_converted,
                    df_rows, outcome, not_found_ref >>

NextNorm == NormalizePass

SpecNorm == InitNorm /\ [][NextNorm]_vars

---------------------------------------------------------------------------
(* What the claims speak of *)

RecordRequests == SelectSeq(requests, LAMBDA r : r.kind = "records")
ListingRequests == SelectSeq(requests, LAMBDA r : r.kind = "tables")

\* the fetch loop has ended
LoopEnded == pc = "build" \/ (pc = "done" /\ outcome = "table")

\* the page size the page-size policy prescribes for a query limit
PolicyPageSize(L) == IF L >= 1 /\ L <= 999 THEN L ELSE 1000

CeilDiv(a, b) == (a + b - 1) \div b

ArgsViolateContract == (args.table_id = None) = (args.table_name = None)

\* the records endpoint behaves as one holding N full pages and then a page of K
ConsistentWith(N, K) ==
    \A i \in 1..Len(pages) :
        /\ pages[i].status = OK
        /\ pages[i].n = (IF i <= N THEN PolicyPageSize(max_limit)
                         ELSE IF i = N + 1 THEN K ELSE 0)

PartialSizes == { k \in { 0, 1, 49, 999 } : k < PolicyPageSize(max_limit) }

\* the records of the first k responses, in the order served
RECURSIVE Served(_)
Served(k) ==
    IF k = 0 THEN << >>
    ELSE Served(k - 1) \o (IF pages[k].status = OK
                           THEN Page(RecordRequests[k].offset, pages[k].n)
                           ELSE << >>)

ReservedNames == { N_createdAt, N_updatedAt, N_Sequencenumber }
MetadataNames == [i \in 1..Len(table_columns) |-> table_columns[i].name]

---------------------------------------------------------------------------
(* C1 *)

\* C1: a call with table_id and table_name both unset or both set fails with
\* ValueError, and no HTTP request is issued before or after the failure.
C1_InvalidArgsRaiseWithoutRequest ==
    ArgsViolateContract =>
        /\ requests = << >>
        /\ pc \in { "start", "done" }
        /\ (pc = "done" => outcome = "ValueError")

C1_Witness ==
    /\ pc = "done"
    /\ outcome = "ValueError"
    /\ args.table_id # None
    /\ args.table_name # None

(* C2 *)

\* C2 as claimed: for any query limit or none, when every page request
\* succeeds and the endpoint holds N full pages of P records and then a page
\* of K < P, the ended loop has issued N+1 requests and holds N*P+K records.
C2_AsClaimed ==
    LoopEnded =>
        \A N \in 0..MaxPages, K \in PartialSizes :
            ConsistentWith(N, K) =>
                /\ Len(RecordRequests) = N + 1
                /\ Len(all_records) = N * PolicyPageSize(max_limit) + K

\* C2 amended: the same, for a query without a limit (absent or 0), or N = 0,
\* or a limit L with 1000 * N < L.
C2_FullPagesThenPartial ==
    LoopEnded =>
        \A N \in 0..MaxPages, K \in PartialSizes :
            /\ ConsistentWith(N, K)
            /\ (max_limit = 0 \/ N = 0 \/ 1000 * N < max_limit)
            => /\ Len(RecordRequests) = N + 1
               /\ Len(all_records) = N * PolicyPageSize(max_limit) + K

C2_Witness ==
    /\ LoopEnded
    /\ max_limit = 0
    /\ Len(pages) = 3
    /\ ConsistentWith(2, 999)
    /\ Len(all_records) = 2999

(* C3 *)

\* C3: a records page request answered with a non-success status is the last
\* request of the call, leaves the records of the earlier pages as they were
\* served, and the call goes on to build and return a table.
C3_FailedPageStopsAndKeeps ==
    \A k \in 1..Len(pages) :
        pages[k].status # OK =>
            /\ k = Len(pages)
            /\ Len(RecordRequests) = k
            /\ pc \in { "build", "done" }
            /\ all_records = Served(k - 1)
            /\ (pc = "done" => outcome = "table")

C3_Witness ==
    /\ pc = "done"
    /\ outcome = "table"
    /\ Len(pages) = 2
    /\ pages[2].status # OK
    /\ Len(all_records) = 1000

(* C4 *)

\* C4: with a positive limit L the call issues at most ceil(L/1000) records
\* page requests whatever the server returns, at least one once the loop has
\* ended, and exactly one for L in [1, 999].
C4_RequestsWithinCap ==
    max_limit > 0 =>
        /\ Len(RecordRequests) <= CeilDiv(max_limit, 1000)
        /\ (LoopEnded => Len(RecordRequests) >= 1)
        /\ (LoopEnded /\ max_limit <= 999 => Len(RecordRequests) = 1)

C4_Witness ==
    /\ LoopEnded
    /\ max_limit = 2000
    /\ Len(RecordRequests) = 2
    /\ \A i \in 1..2 : pages[i].status = OK /\ pages[i].n >= 1000

(* C5 *)

\* C5: every records page request of a call carries the same limit: the query's
\* limit when it is in [1, 999], 1000 otherwise.
C5_PageSizePolicy ==
    \A i \in 1..Len(RecordRequests) :
        RecordRequests[i].limit = PolicyPageSize(MaxLimit(args.query))

C5_Witness ==
    /\ Len(RecordRequests) = 2
    /\ MaxLimit(args.query) = 1500
    /\ RecordRequests[2].limit = 1000

(* C6 *)

RequestedRef == IF args.table_id # None THEN args.table_id ELSE args.table_name

NoListedTableMatches ==
    IF args.table_id # None
    THEN \A i \in 1..Len(listing.tables) : listing.tables[i].id # args.table_id
    ELSE \A i \in 1..Len(listing.tables) : listing.tables[i].label # args.table_name

\* C6: when the listing answers with a non-success status, or lists no table
\* whose id (table_id given) or label (table_name given) is the requested one,
\* the call returns a failure value, not a table, without a records request;
\* the not-found value carries the requested reference.
C6_ResolutionFailureReturnsValue ==
    listing.status # 0 /\ (listing.status # OK \/ NoListedTableMatches) =>
        /\ pc = "done"
        /\ Len(RecordRequests) = 0
        /\ (listing.status # OK => outcome = "credentials")
        /\ (listing.status = OK => outcome = "notfound" /\ not_found_ref = RequestedRef)

C6_Witness ==
    /\ pc = "done"
    /\ outcome = "notfound"
    /\ args.table_id = "Parts"
    /\ listing.tables = LISTING_1
    /\ not_found_ref = "Parts"

(* C7 *)

\* C7 as claimed: with no record fetched, the constructed table has no row and
\* its columns are the metadata's internal names, in order, followed by
\* _createdAt, _updatedAt and _Sequencenumber.
C7_AsClaimed ==
    pc = "done" /\ outcome = "table" /\ all_records = << >> =>
        /\ df_rows = << >>
        /\ constructed = MetadataNames \o << N_createdAt, N_updatedAt, N_Sequencenumber >>

\* C7 amended: the same, provided no internal name of the metadata is one of
\* the three reserved names.
C7_EmptyTableColumns ==
    /\ pc = "done"
    /\ outcome = "table"
    /\ all_records = << >>
    /\ Range(MetadataNames) \cap ReservedNames = {}
    => /\ df_rows = << >>
       /\ constructed = MetadataNames \o << N_createdAt, N_updatedAt, N_Sequencenumber >>

C7_Witness ==
    /\ pc = "done"
    /\ outcome = "table"
    /\ all_records = << >>
    /\ Len(pages) = 1
    /\ pages[1].status # OK
    /\ table_columns = COLS_A
    /\ constructed = << N_id, N_qty, N_createdAt, N_updatedAt, N_Sequencenumber >>

(* C8 *)

\* C8 as claimed: for every column list and every column mapping, a second
\* normalisation of the normalised names changes nothing.
C8_AsClaimed == passes = 2 => df_columns = norm_once

RenameKeys == { table_columns[i].name : i \in 1..Len(table_columns) }
              \cup { N_createdAt, N_updatedAt }

\* C8 amended: a second normalisation changes nothing when the rename option
\* is off, or when no once-normalised name is an internal name of the mapping
\* (or _createdAt, _updatedAt); "ID" stays "ID", "Foo_Bar" stays "Foo_Bar".
C8_NormalizeIdempotent ==
    /\ passes = 2
    /\ (~args.rename_columns \/ Range(norm_once) \cap RenameKeys = {})
    => df_columns = norm_once

C8_Witness ==
    /\ passes = 2
    /\ args.rename_columns
    /\ table_columns = COLS_A
    /\ constructed = << N_id, N_Foo_Bar >>
    /\ norm_once = << N_ID, N_Foo_Bar >>
    /\ df_columns = << N_ID, N_Foo_Bar >>

(* C9 *)

\* C9: with the rename option on, a table holding _createdAt / _updatedAt is
\* returned with these columns named "Created_At" / "Updated_At", whatever
\* the column mapping.
C9_AsClaimed ==
    pc = "done" /\ outcome = "table" /\ args.rename_columns =>
        \A i \in 1..Len(constructed) :
            /\ (constructed[i] = N_createdAt => df_columns[i] = N_Created_At)
            /\ (constructed[i] = N_updatedAt => df_columns[i] = N_Updated_At)

(* C10 *)

\* C10: with a positive limit L and a server that never returns more than the
\* requested page size, the records accumulated never exceed L, and the k-th
\* page request carries offset (k-1) times the page size.
C10_AsClaimed ==
    /\ max_limit > 0
    /\ \A i \in 1..Len(pages) : pages[i].n <= PolicyPageSize(max_limit)
    => /\ Len(all_records) <= max_limit
       /\ \A k \in 1..Len(RecordRequests) :
              RecordRequests[k].offset = (k - 1) * PolicyPageSize(max_limit)

====
